---- MODULE Spec2Model ----
(***************************************************************************)
(* Inventory ledger of AradinClone: the balance table, the history table   *)
(* and the shipping-instruction table of server storage, with the request  *)
(* handlers that mutate them (inventory adjust, create shipping           *)
(* instruction, confirm shipping instruction).  Every awaited database     *)
(* statement of a handler is one step, so concurrent requests interleave   *)
(* between statements as they do on the Node event loop.  The store is     *)
(* PostgreSQL at its default isolation level (READ COMMITTED): a statement *)
(* sees what is committed when it runs plus its own transaction's writes,  *)
(* an UPDATE waits for the row lock of an open transaction, and the unique *)
(* index on (product, location, state) rejects a second row.               *)
(***************************************************************************)
EXTENDS Integers, Sequences, FiniteSets, TLC

\* ---------------------------------------------------------------- bounds
MaxQty == 2            \* largest quantity a request carries
InitStock == 2         \* seeded NORMAL stock on the warehouse shelf
MaxHistory == 2        \* history rows written before new requests stop
MaxInstructions == 2   \* shipping instructions, the seeded one included
InitReserved == 1      \* seeded RESERVED stock on the warehouse shelf
InitShipQty == 1       \* quantity of the seeded pending shipping instruction
MaxPlans == 2          \* inbound plans created
MaxMin == 3            \* largest minStock of a criteria row
MaxTarget == 4         \* largest targetStock of a criteria row
ExtraPairs == 1        \* criteria rows beyond the alert limit

\* ------------------------------------------------------- fixed vocabulary
NORMAL == "NORMAL"                \* schema value tsuujou
RESERVED == "RESERVED"            \* schema value kakuho
IN_INSPECTION == "IN_INSPECTION"  \* schema value kenpinchuu
DEFECTIVE == "DEFECTIVE"          \* schema value furyou
InventoryState == {NORMAL, RESERVED, IN_INSPECTION, DEFECTIVE}
NullState == "null"

Products == {1}
WarehouseShelf == 1
Store == 2
Locations == {WarehouseShelf, Store}
NullId == 0

Workers == {1, 2}

\* the absent row of `const [row] = await select...`
NoRow == [id |-> NullId, productId |-> NullId, locationId |-> NullId,
          state |-> NullState, quantity |-> 0]

NoInstruction == [id |-> NullId, productId |-> NullId, fromLocationId |-> NullId,
                  toLocationId |-> NullId, quantity |-> 0, status |-> "null",
                  completedAt |-> "null"]

NoReq == [op |-> "none", productId |-> NullId, locationId |-> NullId,
          toLocationId |-> NullId, fromState |-> NullState, toState |-> NullState,
          quantity |-> 0, fraction |-> 0, operationType |-> "null",
          status |-> "null", id |-> NullId]

NoReceive == [id |-> NullId, goodQty |-> 0, defectQty |-> 0]

VARIABLES
    balances,        \* committed rows of inventory_balances
    instructions,    \* rows of shipping_instructions, indexed by id
    history,         \* rows of inventory_history, in insertion order
    pc,              \* per request slot: the statement it is about to run
    req,             \* per request slot: the parsed request
    txRows,          \* per request slot: balance rows written by its open transaction
    fromBalance,     \* local fromBalance of adjustInventory, warehouseBalance of confirm
    toBalance,       \* local toBalance of adjustInventory, storeBalance of confirm
    existing,        \* local existing of updateInventoryBalance
    instruction,     \* local instruction of confirmShippingInstruction
    response,        \* the response sent by the step just taken ("none" if none)
    okResponses,     \* number of success responses sent so far
    criteria,        \* rows of replenishment_criteria joined with the active flags
    alerts,          \* the alert list in the response just sent (<<>> if none)
    plans,           \* rows of inbound_plans, indexed by id
    receiving        \* the parsed receive request the route hands to the storage

vars == <<balances, instructions, history, pc, req, txRows,
          fromBalance, toBalance, existing, instruction, response, okResponses,
          criteria, alerts, plans, receiving>>

dbVars == <<balances, instructions, history>>
localVars == <<fromBalance, toBalance, existing, instruction>>

\* ------------------------------------------------------------ the store
SameKey(r, p, l, s) == r.productId = p /\ r.locationId = l /\ r.state = s

\* rows a statement of slot w sees: committed rows, overlaid by its own writes
Visible(w) ==
    {r \in balances : \A t \in txRows[w] : t.id # r.id} \cup txRows[w]

\* `const [row] = await select().from(inventoryBalances).where(...)`
SelectBalance(rows, p, l, s) ==
    LET hits == {r \in rows : SameKey(r, p, l, s)}
    IN  IF hits = {} THEN NoRow
        ELSE CHOOSE r \in hits : \A o \in hits : r.id <= o.id

\* get(product, location, state): the quantity of the row, zero when absent
BalanceOf(rows, p, l, s) == SelectBalance(rows, p, l, s).quantity

\* the row lock an open transaction holds on a row it has written
Holds(v, id) == \E t \in txRows[v] : t.id = id

LockedByOther(w, id) == \E v \in Workers \ {w} : Holds(v, id)

\* an uncommitted insert of the same key by another transaction: the unique
\* index makes the second insert wait for that transaction to end
InsertPendingElsewhere(w, p, l, s) ==
    \E v \in Workers \ {w} : \E t \in txRows[v] :
        SameKey(t, p, l, s) /\ \A r \in balances : r.id # t.id

\* seeded fault: the table has no unique index
UniqueViolationNever(rows, p, l, s) == FALSE

\* unique().on(productId, locationId, state)
UniqueViolation(rows, p, l, s) == \E r \in rows : SameKey(r, p, l, s)

Replace(rows, row) == {r \in rows : r.id # row.id} \cup {row}

\* serial("id"): an id no row has, committed or not
NextBalanceId ==
    LET rows == balances \cup UNION {txRows[v] : v \in Workers}
        ids == {r.id : r \in rows} \cup {0}
    IN  1 + CHOOSE m \in ids : \A i \in ids : i <= m

NewRow(id, p, l, s, q) ==
    [id |-> id, productId |-> p, locationId |-> l, state |-> s, quantity |-> q]

HistoryRow(kind, p, q, fl, tl, fs, ts, ref) ==
    [operationType |-> kind, productId |-> p, quantity |-> q,
     fromLocationId |-> fl, toLocationId |-> tl,
     fromState |-> fs, toState |-> ts, referenceId |-> ref]

\* ------------------------------------------------------------- requests
\* a quantity of a request body is the number quantity + fraction / 2
Quantities == -1 .. MaxQty
Fractions == {0, 1}
OptState == InventoryState \cup {NullState}

AdjustBody(l, fs, ts, q) ==
    [op |-> "adjust", productId |-> 1, locationId |-> l, toLocationId |-> l,
     fromState |-> fs, toState |-> ts, quantity |-> q, fraction |-> 0,
     operationType |-> "reserve", status |-> "null", id |-> NullId]

\* the same body with a quantity that has a fractional part
WithFraction(bodies) ==
    {[b EXCEPT !.fraction = f] : b \in bodies, f \in Fractions}

\* every shape of adjust request, for requests served one at a time
AllAdjustBodies ==
    WithFraction({AdjustBody(l, fs, ts, q) :
        l \in Locations, fs \in OptState, ts \in OptState, q \in Quantities})

\* the shapes that contend for the same rows, for requests served concurrently
ContendingAdjustBodies ==
    WithFraction({AdjustBody(WarehouseShelf, NORMAL, NullState, q) : q \in Quantities})
    \cup {AdjustBody(WarehouseShelf, NORMAL, RESERVED, 1),
          AdjustBody(WarehouseShelf, RESERVED, NORMAL, 1),
          AdjustBody(Store, NullState, NORMAL, 1)}

\* status values a create request may carry; "null" when the body has none
BodyStatus == {"null", "pending", "completed"}

ShippingBody(q, f, st) ==
    [op |-> "ship", productId |-> 1, locationId |-> WarehouseShelf,
     toLocationId |-> Store, fromState |-> NullState, toState |-> NullState,
     quantity |-> q, fraction |-> f, operationType |-> "ship-request-created",
     status |-> st, id |-> NullId]

ConfirmReq(id) ==
    [op |-> "confirm", productId |-> NullId, locationId |-> NullId,
     toLocationId |-> NullId, fromState |-> NullState, toState |-> NullState,
     quantity |-> 0, fraction |-> 0, operationType |-> "ship-confirmed",
     status |-> "null", id |-> id]

\* seeded fault: the sign of the number is not looked at
PositiveIntUnsigned(q, f) == f = 0

\* z.number().positive().int() on the number q + f / 2
PositiveInt(q, f) == (q > 0 \/ (q = 0 /\ f > 0)) /\ f = 0

\* adjustInventorySchema.parse
AdjustInventorySchema(body) ==
    /\ PositiveInt(body.quantity, body.fraction)
    /\ body.fromState \in OptState
    /\ body.toState \in OptState

\* insertShippingInstructionSchema.parse
InsertShippingInstructionSchema(body) ==
    /\ PositiveInt(body.productId, 0)
    /\ PositiveInt(body.locationId, 0)
    /\ PositiveInt(body.toLocationId, 0)
    /\ PositiveInt(body.quantity, body.fraction)

\* seeded fault: the check forgets the quantity comparison
SufficientAnyQuantity(row, q) == row.id # NullId

\* fromBalance && fromBalance.quantity >= quantity
Sufficient(row, q) == row.id # NullId /\ row.quantity >= q

\* seeded fault: the new quantity forgets what the row already holds
NewQuantityOverwrite(row, q) == q

\* (toBalance?.quantity || 0) + quantity
NewQuantity(row, q) == (IF row.id # NullId THEN row.quantity ELSE 0) + q

\* seeded fault: the insert replaces the newest row instead of adding one
InsertHistoryOverLast(h, row) ==
    IF h = <<>> THEN <<row>> ELSE [h EXCEPT ![Len(h)] = row]

\* db.insert(inventoryHistory).values(entry)
InsertHistory(h, row) == Append(h, row)

\* the success message of the route that called adjustInventory
SuccessMessage(op) ==
    IF op = "sale" THEN "Sale recorded successfully"
    ELSE IF op = "return_ship" THEN "Return shipment processed successfully"
    ELSE IF op = "customer_return" THEN "Customer return processed successfully"
    ELSE "Inventory adjusted successfully"

Busy == {w \in Workers : pc[w] # "idle"}

\* new requests stop once the history bound could be reached
Room == Len(history) + Cardinality(Busy) < MaxHistory

\* a request takes the lowest free slot
FreeSlot(w) == pc[w] = "idle" /\ \A v \in Workers : v < w => pc[v] # "idle"

\* the handler returns or throws: its locals and its transaction are gone
Finish(w, res) ==
    /\ pc' = [pc EXCEPT ![w] = "idle"]
    /\ req' = [req EXCEPT ![w] = NoReq]
    /\ txRows' = [txRows EXCEPT ![w] = {}]
    /\ fromBalance' = [fromBalance EXCEPT ![w] = NoRow]
    /\ toBalance' = [toBalance EXCEPT ![w] = NoRow]
    /\ existing' = [existing EXCEPT ![w] = NoRow]
    /\ instruction' = [instruction EXCEPT ![w] = NoInstruction]
    /\ response' = res
    /\ alerts' = <<>>
    /\ UNCHANGED <<criteria, plans, receiving>>

Goto(w, label) ==
    /\ pc' = [pc EXCEPT ![w] = label]
    /\ response' = "none"
    /\ alerts' = <<>>
    /\ UNCHANGED <<criteria, plans, receiving>>

\* the ledger tables and the request slots at start
LedgerInit ==
    /\ balances = {NewRow(1, 1, WarehouseShelf, NORMAL, InitStock),
                   NewRow(2, 1, WarehouseShelf, RESERVED, InitReserved)}
    /\ instructions = <<[id |-> 1, productId |-> 1,
                         fromLocationId |-> WarehouseShelf, toLocationId |-> Store,
                         quantity |-> InitShipQty, status |-> "pending",
                         completedAt |-> "null"]>>
    /\ history = <<>>
    /\ pc = [w \in Workers |-> "idle"]
    /\ req = [w \in Workers |-> NoReq]
    /\ txRows = [w \in Workers |-> {}]
    /\ fromBalance = [w \in Workers |-> NoRow]
    /\ toBalance = [w \in Workers |-> NoRow]
    /\ existing = [w \in Workers |-> NoRow]
    /\ instruction = [w \in Workers |-> NoInstruction]
    /\ response = "none"
    /\ okResponses = 0
    /\ alerts = <<>>
    /\ plans = <<>>
    /\ receiving = NoReceive

\* no replenishment criteria configured
Init == LedgerInit /\ criteria = {}

\* ------------------------------------------- POST /api/inventory/adjust
AdjustFirstStep(r) ==
    IF r.fromState # NullState THEN "adj_from_select"
    ELSE IF r.toState # NullState THEN "adj_to_select"
    ELSE "adj_history"

\* seeded fault: the toState branch runs whether or not a toState was given
AdjustAfterFromAlwaysTo(r) == "adj_to_select"

AdjustAfterFrom(r) ==
    IF r.toState # NullState THEN "adj_to_select" ELSE "adj_history"

\* the route: parse the body, then call adjustInventory, which opens a transaction
AdjustRoute(w, bodies) ==
    /\ FreeSlot(w)
    /\ Room
    /\ \E body \in bodies :
        IF AdjustInventorySchema(body)
        THEN /\ req' = [req EXCEPT ![w] = body]
             /\ Goto(w, AdjustFirstStep(body))
             /\ UNCHANGED <<txRows, localVars>>
        ELSE Finish(w, "Validation error")
    /\ UNCHANGED <<dbVars, okResponses>>

\* select the fromState row, then the sufficiency check
AdjustFromSelect(w) ==
    /\ pc[w] = "adj_from_select"
    /\ LET row == SelectBalance(Visible(w), req[w].productId, req[w].locationId,
                                req[w].fromState)
       IN  IF Sufficient(row, req[w].quantity)
           THEN /\ fromBalance' = [fromBalance EXCEPT ![w] = row]
                /\ Goto(w, "adj_from_update")
                /\ UNCHANGED <<req, txRows, toBalance, existing, instruction>>
           ELSE Finish(w, "Insufficient inventory in state")
    /\ UNCHANGED <<dbVars, okResponses>>

\* update ... set quantity = fromBalance.quantity - quantity where id = fromBalance.id
AdjustFromUpdate(w) ==
    /\ pc[w] = "adj_from_update"
    /\ ~LockedByOther(w, fromBalance[w].id)
    /\ txRows' = [txRows EXCEPT ![w] =
           Replace(@, [fromBalance[w] EXCEPT
                          !.quantity = fromBalance[w].quantity - req[w].quantity])]
    /\ Goto(w, AdjustAfterFrom(req[w]))
    /\ UNCHANGED <<dbVars, req, localVars, okResponses>>

AdjustToSelect(w) ==
    /\ pc[w] = "adj_to_select"
    /\ toBalance' = [toBalance EXCEPT ![w] =
           SelectBalance(Visible(w), req[w].productId, req[w].locationId,
                         req[w].toState)]
    /\ Goto(w, "adj_to_write")
    /\ UNCHANGED <<dbVars, req, txRows, fromBalance, existing, instruction,
                   okResponses>>

\* update the toState row when it was found, insert it otherwise
AdjustToWrite(w) ==
    /\ pc[w] = "adj_to_write"
    /\ LET newQuantity == NewQuantity(toBalance[w], req[w].quantity)
       IN  IF toBalance[w].id # NullId
           THEN /\ ~LockedByOther(w, toBalance[w].id)
                /\ txRows' = [txRows EXCEPT ![w] =
                       Replace(@, [toBalance[w] EXCEPT !.quantity = newQuantity])]
                /\ Goto(w, "adj_history")
                /\ UNCHANGED <<req, localVars>>
           ELSE /\ ~InsertPendingElsewhere(w, req[w].productId, req[w].locationId,
                                           req[w].toState)
                /\ IF UniqueViolation(balances \cup txRows[w], req[w].productId,
                                      req[w].locationId, req[w].toState)
                   THEN Finish(w, "duplicate key value")
                   ELSE /\ txRows' = [txRows EXCEPT ![w] = @ \cup
                               {NewRow(NextBalanceId, req[w].productId,
                                       req[w].locationId, req[w].toState,
                                       newQuantity)}]
                        /\ Goto(w, "adj_history")
                        /\ UNCHANGED <<req, localVars>>
    /\ UNCHANGED <<balances, instructions, history, okResponses>>

\* the transaction's writes become the committed rows
Commit(rows, written) ==
    {r \in rows : \A t \in written : t.id # r.id} \cup written

\* insert the history row, commit, answer "Inventory adjusted successfully"
AdjustHistoryCommit(w) ==
    /\ pc[w] = "adj_history"
    /\ history' = InsertHistory(history,
           HistoryRow(req[w].operationType, req[w].productId, req[w].quantity,
                      req[w].locationId, req[w].locationId,
                      req[w].fromState, req[w].toState, NullId))
    /\ balances' = Commit(balances, txRows[w])
    /\ okResponses' = okResponses + 1
    /\ Finish(w, SuccessMessage(req[w].op))
    /\ UNCHANGED instructions

InAdjust(w) ==
    pc[w] \in {"adj_from_select", "adj_from_update", "adj_to_select",
               "adj_to_write", "adj_history"}

\* the store rejects a statement of the transaction: the transaction rolls back
AdjustStatementFails(w) ==
    /\ InAdjust(w)
    /\ Finish(w, "store error")
    /\ UNCHANGED <<dbVars, okResponses>>

\* the row the next UPDATE of slot w has to lock
NeededRow(w) ==
    IF pc[w] = "adj_from_update" THEN fromBalance[w].id
    ELSE IF pc[w] = "adj_to_write" THEN toBalance[w].id
    ELSE NullId

Deadlocked(w) ==
    \E v \in Workers \ {w} :
        /\ NeededRow(w) # NullId /\ Holds(v, NeededRow(w))
        /\ NeededRow(v) # NullId /\ Holds(w, NeededRow(v))

\* the store's deadlock detector aborts one of two transactions that wait
\* for each other's row lock
AdjustDeadlock(w) ==
    /\ Deadlocked(w)
    /\ Finish(w, "deadlock detected")
    /\ UNCHANGED <<dbVars, okResponses>>

\* --------------------- the other routes that call adjustInventory
\* saleAmount, discount and memo never reach a balance or a quantity
SaleBodies ==
    WithFraction({[AdjustBody(l, NORMAL, NullState, q) EXCEPT
                      !.op = "sale", !.operationType = "sale"] :
                  l \in Locations, q \in Quantities})

\* saleSchema.parse
SaleSchema(body) == PositiveInt(body.quantity, body.fraction)

\* POST /api/sales: adjustInventory(productId, locationId, NORMAL, null, quantity, sale)
SaleRoute(w) ==
    /\ FreeSlot(w)
    /\ Room
    /\ \E body \in SaleBodies :
        IF SaleSchema(body)
        THEN /\ req' = [req EXCEPT ![w] = body]
             /\ Goto(w, AdjustFirstStep(body))
             /\ UNCHANGED <<txRows, localVars>>
        ELSE Finish(w, "Validation error")
    /\ UNCHANGED <<dbVars, okResponses>>

ReturnShipBodies ==
    WithFraction({[AdjustBody(l, fs, NullState, q) EXCEPT
                      !.op = "return_ship", !.operationType = ot] :
                  l \in Locations, fs \in OptState, q \in Quantities,
                  ot \in {"sale", "store-return-ship"}})

\* reductionOnlySchema.parse: fromState is required
ReductionOnlySchema(body) ==
    /\ PositiveInt(body.quantity, body.fraction)
    /\ body.fromState \in InventoryState
    /\ body.operationType \in {"sale", "store-return-ship"}

\* POST /api/returns/ship
ReturnShipRoute(w) ==
    /\ FreeSlot(w)
    /\ Room
    /\ \E body \in ReturnShipBodies :
        IF ~ReductionOnlySchema(body)
        THEN Finish(w, "Validation error")
        ELSE IF body.operationType # "store-return-ship"
        THEN Finish(w, "Invalid operation type for return shipment")
        ELSE /\ req' = [req EXCEPT ![w] = body]
             /\ Goto(w, AdjustFirstStep(body))
             /\ UNCHANGED <<txRows, localVars>>
    /\ UNCHANGED <<dbVars, okResponses>>

CustomerReturnBodies ==
    WithFraction({[AdjustBody(l, fs, ts, q) EXCEPT
                      !.op = "customer_return", !.operationType = ot] :
                  l \in Locations, fs \in {NullState, NORMAL}, ts \in OptState,
                  q \in Quantities, ot \in {"reserve", "customer-return"}})

\* POST /api/returns/customer: the body's fromState is not passed on
CustomerReturnRoute(w) ==
    /\ FreeSlot(w)
    /\ Room
    /\ \E body \in CustomerReturnBodies :
        IF ~AdjustInventorySchema(body)
        THEN Finish(w, "Validation error")
        ELSE IF body.operationType # "customer-return"
        THEN Finish(w, "Invalid operation type for customer return")
        ELSE IF body.toState = NullState
        THEN Finish(w, "toState is required for customer returns")
        ELSE LET r == [body EXCEPT !.fromState = NullState]
             IN  /\ req' = [req EXCEPT ![w] = r]
                 /\ Goto(w, AdjustFirstStep(r))
                 /\ UNCHANGED <<txRows, localVars>>
    /\ UNCHANGED <<dbVars, okResponses>>

\* ------------------------------------------------------ POST /api/shipping
Creating == {w \in Workers : pc[w] \in {"sh_insert", "sh_history"}}

ShippingRoute(w) ==
    /\ FreeSlot(w)
    /\ Room
    /\ Len(instructions) + Cardinality(Creating) < MaxInstructions
    /\ \E q \in Quantities, f \in Fractions, st \in BodyStatus :
        LET body == ShippingBody(q, f, st)
        IN  IF InsertShippingInstructionSchema(body)
            THEN /\ req' = [req EXCEPT ![w] = body]
                 /\ Goto(w, "sh_insert")
                 /\ UNCHANGED <<txRows, localVars>>
            ELSE Finish(w, "Validation error")
    /\ UNCHANGED <<dbVars, okResponses>>

\* status: text("status").default('pending'), not omitted by the insert schema
InsertedStatus(st) == IF st = "null" THEN "pending" ELSE st

\* storage.createShippingInstruction: the parsed body is inserted as it is;
\* completedAt is omitted by the schema and takes its default
CreateShippingInstruction(w) ==
    /\ pc[w] = "sh_insert"
    /\ LET created == [id |-> Len(instructions) + 1,
                       productId |-> req[w].productId,
                       fromLocationId |-> req[w].locationId,
                       toLocationId |-> req[w].toLocationId,
                       quantity |-> req[w].quantity,
                       status |-> InsertedStatus(req[w].status),
                       completedAt |-> "null"]
       IN  /\ instructions' = Append(instructions, created)
           /\ instruction' = [instruction EXCEPT ![w] = created]
    /\ Goto(w, "sh_history")
    /\ UNCHANGED <<balances, history, req, txRows, fromBalance,
                   toBalance, existing, okResponses>>

\* seeded fault: the route answers without logging the creation
ShippingHistorySkipped(w) ==
    /\ pc[w] = "sh_history"
    /\ okResponses' = okResponses + 1
    /\ Finish(w, "instruction created")
    /\ UNCHANGED dbVars

\* storage.createHistoryEntry of the route, then res.json(instruction)
ShippingHistory(w) ==
    /\ pc[w] = "sh_history"
    /\ history' = InsertHistory(history,
           HistoryRow("ship-request-created", req[w].productId, req[w].quantity,
                      NullId, NullId, NullState, NullState, instruction[w].id))
    /\ okResponses' = okResponses + 1
    /\ Finish(w, "instruction created")
    /\ UNCHANGED <<balances, instructions>>

\* the store rejects a statement of the route: what ran before it stays
ShippingStatementFails(w) ==
    /\ pc[w] \in {"sh_insert", "sh_history"}
    /\ Finish(w, "Failed to create shipping instruction")
    /\ UNCHANGED <<dbVars, okResponses>>

\* ------------------------------------------ POST /api/shipping/:id/confirm
ConfirmIds == 1 .. MaxInstructions

ConfirmRoute(w) ==
    /\ FreeSlot(w)
    /\ Room
    /\ \E id \in ConfirmIds : req' = [req EXCEPT ![w] = ConfirmReq(id)]
    /\ Goto(w, "cf_get")
    /\ UNCHANGED <<dbVars, txRows, localVars, okResponses>>

\* storage.getShippingInstruction
GetShippingInstruction(id) ==
    IF id \in 1 .. Len(instructions) THEN instructions[id] ELSE NoInstruction

ConfirmGet(w) ==
    /\ pc[w] = "cf_get"
    /\ LET found == GetShippingInstruction(req[w].id)
       IN  IF found.id = NullId
           THEN Finish(w, "Shipping instruction not found")
           ELSE /\ instruction' = [instruction EXCEPT ![w] = found]
                /\ Goto(w, "cf_src_read")
                /\ UNCHANGED <<req, txRows, fromBalance, toBalance, existing>>
    /\ UNCHANGED <<dbVars, okResponses>>

\* seeded fault: the check only notices a missing row
InsufficientWarehouseMissingOnly(row, q) == row.id = NullId

\* !warehouseBalance || warehouseBalance.quantity < instruction.quantity
InsufficientWarehouse(row, q) == row.id = NullId \/ row.quantity < q

\* seeded fault: the confirm works on the reserved stock
ConfirmStateReserved == RESERVED

\* the state literal of every balance call of confirmShippingInstruction
ConfirmState == NORMAL

\* read the NORMAL balance at the source, then the sufficiency check
ConfirmSourceRead(w) ==
    /\ pc[w] = "cf_src_read"
    /\ LET warehouseBalance ==
               SelectBalance(balances, instruction[w].productId,
                             instruction[w].fromLocationId, ConfirmState)
       IN  IF InsufficientWarehouse(warehouseBalance, instruction[w].quantity)
           THEN Finish(w, "Insufficient warehouse inventory")
           ELSE /\ fromBalance' = [fromBalance EXCEPT ![w] = warehouseBalance]
                /\ Goto(w, "cf_src_existing")
                /\ UNCHANGED <<req, txRows, toBalance, existing, instruction>>
    /\ UNCHANGED <<dbVars, okResponses>>

\* updateInventoryBalance, first statement: look the row up again
UpdateInventoryBalanceSelect(w, l, next) ==
    /\ existing' = [existing EXCEPT ![w] =
           SelectBalance(balances, instruction[w].productId, l, ConfirmState)]
    /\ Goto(w, next)
    /\ UNCHANGED <<dbVars, req, txRows, fromBalance, toBalance, instruction,
                   okResponses>>

\* updateInventoryBalance, second statement: overwrite the row found, or insert
UpdateInventoryBalanceWrite(w, l, quantity, next) ==
    /\ IF existing[w].id # NullId
       THEN /\ ~LockedByOther(w, existing[w].id)
            /\ balances' = Replace(balances, [existing[w] EXCEPT !.quantity = quantity])
            /\ Goto(w, next)
            /\ UNCHANGED <<req, txRows, localVars>>
       ELSE /\ ~InsertPendingElsewhere(w, instruction[w].productId, l, ConfirmState)
            /\ IF UniqueViolation(balances, instruction[w].productId, l, ConfirmState)
               THEN /\ Finish(w, "duplicate key value")
                    /\ UNCHANGED balances
               ELSE /\ balances' = balances \cup
                           {NewRow(NextBalanceId, instruction[w].productId, l,
                                   ConfirmState, quantity)}
                    /\ Goto(w, next)
                    /\ UNCHANGED <<req, txRows, localVars>>
    /\ UNCHANGED <<instructions, history, okResponses>>

ConfirmSourceExisting(w) ==
    /\ pc[w] = "cf_src_existing"
    /\ UpdateInventoryBalanceSelect(w, instruction[w].fromLocationId, "cf_src_write")

\* warehouseBalance.quantity - instruction.quantity
ConfirmSourceWrite(w) ==
    /\ pc[w] = "cf_src_write"
    /\ UpdateInventoryBalanceWrite(w, instruction[w].fromLocationId,
           fromBalance[w].quantity - instruction[w].quantity, "cf_dst_read")

ConfirmDestRead(w) ==
    /\ pc[w] = "cf_dst_read"
    /\ toBalance' = [toBalance EXCEPT ![w] =
           SelectBalance(balances, instruction[w].productId,
                         instruction[w].toLocationId, ConfirmState)]
    /\ Goto(w, "cf_dst_existing")
    /\ UNCHANGED <<dbVars, req, txRows, fromBalance, existing, instruction,
                   okResponses>>

ConfirmDestExisting(w) ==
    /\ pc[w] = "cf_dst_existing"
    /\ UpdateInventoryBalanceSelect(w, instruction[w].toLocationId, "cf_dst_write")

\* (storeBalance?.quantity || 0) + instruction.quantity
ConfirmDestWrite(w) ==
    /\ pc[w] = "cf_dst_write"
    /\ UpdateInventoryBalanceWrite(w, instruction[w].toLocationId,
           NewQuantity(toBalance[w], instruction[w].quantity), "cf_mark")

\* seeded fault: confirming a completed instruction reopens it
MarkCompletedToggle(row) ==
    [row EXCEPT !.status = IF @ = "completed" THEN "pending" ELSE "completed",
                !.completedAt = "now"]

\* seeded fault: the status changes but no completion time is stamped
MarkCompletedNoTimestamp(row) == [row EXCEPT !.status = "completed"]

\* set status = 'completed', completedAt = new Date() where id = id
MarkCompleted(row) == [row EXCEPT !.status = "completed", !.completedAt = "now"]

ConfirmMark(w) ==
    /\ pc[w] = "cf_mark"
    /\ instructions' = [instructions EXCEPT ![req[w].id] = MarkCompleted(@)]
    /\ Goto(w, "cf_history")
    /\ UNCHANGED <<balances, history, req, txRows, localVars,
                   okResponses>>

\* createHistoryEntry, then "Shipping instruction confirmed"
ConfirmHistory(w) ==
    /\ pc[w] = "cf_history"
    /\ history' = InsertHistory(history,
           HistoryRow("ship-confirmed", instruction[w].productId,
                      instruction[w].quantity, instruction[w].fromLocationId,
                      instruction[w].toLocationId, NORMAL, NORMAL, req[w].id))
    /\ okResponses' = okResponses + 1
    /\ Finish(w, "Shipping instruction confirmed")
    /\ UNCHANGED <<balances, instructions>>

InConfirm(w) ==
    pc[w] \in {"cf_get", "cf_src_read", "cf_src_existing", "cf_src_write",
               "cf_dst_read", "cf_dst_existing", "cf_dst_write", "cf_mark",
               "cf_history"}

\* the store rejects a statement of confirmShippingInstruction: no transaction
\* encloses the statements, so what ran before it stays
ConfirmStatementFails(w) ==
    /\ InConfirm(w)
    /\ Finish(w, "store error")
    /\ UNCHANGED <<dbVars, okResponses>>

\* ------------------------------------------- GET /api/dashboard/low-stock
AlertLimit == 50

\* COALESCE(inventoryBalances.quantity, 0) over the left join on the NORMAL row
CurrentStock(c) == BalanceOf(balances, c.productId, c.locationId, NORMAL)

\* seeded fault: pending instructions are not counted
PendingShipmentsNone(c) == 0

\* SELECT COUNT(*) FROM shipping_instructions si WHERE ... AND si.status = 'pending'
PendingShipments(c) ==
    Cardinality({i \in 1 .. Len(instructions) :
                    /\ instructions[i].productId = c.productId
                    /\ instructions[i].toLocationId = c.locationId
                    /\ instructions[i].status = "pending"})

\* seeded fault: stock equal to the minimum counts as low
LowStockInclusive(c) == CurrentStock(c) <= c.minStock

\* lt(COALESCE(quantity, 0), minStock)
LowStock(c) == CurrentStock(c) < c.minStock

\* the where clause
AlertRows == {c \in criteria : c.active /\ LowStock(c) /\ PendingShipments(c) = 0}

\* one selected row, as result.map returns it
AlertOf(c) ==
    [productId |-> c.productId, locationId |-> c.locationId,
     currentStock |-> CurrentStock(c), minStock |-> c.minStock,
     targetStock |-> c.targetStock,
     shortageAmount |-> c.minStock - CurrentStock(c)]

\* the order the store leaves open between rows of equal shortage
TieOrders == {"asc", "desc"}

\* seeded fault: the sort is ascending
BeforeAscending(a, b, tie) ==
    \/ a.shortageAmount < b.shortageAmount
    \/ /\ a.shortageAmount = b.shortageAmount
       /\ IF tie = "asc" THEN a.locationId <= b.locationId
          ELSE a.locationId >= b.locationId

\* orderBy(desc(minStock - COALESCE(quantity, 0))): a comes no later than b
Before(a, b, tie) ==
    \/ a.shortageAmount > b.shortageAmount
    \/ /\ a.shortageAmount = b.shortageAmount
       /\ IF tie = "asc" THEN a.locationId <= b.locationId
          ELSE a.locationId >= b.locationId

\* the rows in the order of Before: each row with the number of rows that
\* come no later than it, then the row of every position
Ordered(rows, tie) ==
    LET placed == {<<Cardinality({b \in rows : Before(b, a, tie)}), a>> : a \in rows}
    IN  [i \in 1 .. Cardinality(rows) |-> (CHOOSE p \in placed : p[1] = i)[2]]

\* .limit(50)
Limit(rows, n) == IF Len(rows) <= n THEN rows ELSE SubSeq(rows, 1, n)

\* storage.getLowStockAlerts
GetLowStockAlerts(tie) ==
    Limit(Ordered({AlertOf(c) : c \in AlertRows}, tie), AlertLimit)

\* Shipping page, fillFromAlert: Math.max(0, alert.targetStock - alert.currentStock)
RecommendedQuantity(alert) ==
    IF alert.targetStock - alert.currentStock > 0
    THEN alert.targetStock - alert.currentStock ELSE 0

\* the route: one statement, then the list is sent
LowStockRoute(w) ==
    /\ FreeSlot(w)
    /\ \/ \E tie \in TieOrders :
             /\ alerts' = GetLowStockAlerts(tie)
             /\ response' = "alerts"
       \/ /\ alerts' = <<>>
          /\ response' = "Failed to fetch low stock alerts"
    /\ UNCHANGED <<dbVars, pc, req, txRows, localVars, okResponses, criteria,
                   plans, receiving>>

\* the criteria row of an alert
CriteriaOf(alert) ==
    CHOOSE c \in criteria :
        c.productId = alert.productId /\ c.locationId = alert.locationId

\* the instruction the planner creates for an alert of a store: from the
\* first warehouse location, the criteria's standard replenishment quantity
ReplenishInstruction(alert, id) ==
    [id |-> id, productId |-> alert.productId,
     fromLocationId |-> WarehouseShelf, toLocationId |-> alert.locationId,
     quantity |-> CriteriaOf(alert).standardReplenishment,
     status |-> "pending", completedAt |-> "null"]

\* POST /api/inbounds/replenish: autoReplenishInventory runs the advisor and
\* creates one pending instruction, with its history row, for every alert
AutoReplenishRoute(w) ==
    /\ FreeSlot(w)
    /\ \E tie \in TieOrders :
          LET found == GetLowStockAlerts(tie)
              base == Len(instructions)
          IN  /\ base + Len(found) <= MaxInstructions
              /\ Len(history) + Len(found) <= MaxHistory
              /\ instructions' = instructions \o
                     [i \in 1 .. Len(found) |-> ReplenishInstruction(found[i], base + i)]
              /\ history' = history \o
                     [i \in 1 .. Len(found) |->
                         HistoryRow("ship-request-created", found[i].productId,
                                    CriteriaOf(found[i]).standardReplenishment,
                                    NullId, NullId, NullState, NullState, base + i)]
              /\ alerts' = found
    /\ response' = "replenished"
    /\ UNCHANGED <<balances, pc, req, txRows, localVars, okResponses, criteria,
                   plans, receiving>>

\* ---------------------------------------------------- /api/inbounds
\* insertInboundPlanSchema: plannedQty a positive integer, receivedQty an
\* integer >= 0 taken from the body (0 when absent); status is not omitted
InsertInboundPlanSchema(q, f, r) == PositiveInt(q, f) /\ r >= 0

\* the receivedQty values a body may carry
ReceivedQuantities == -1 .. MaxQty + 1

\* createInboundPlan: the validated plan becomes a row
CreateInboundPlan(rows, q, r, st) ==
    Append(rows, [id |-> Len(rows) + 1, productId |-> 1, plannedQty |-> q,
                  receivedQty |-> r, status |-> InsertedStatus(st)])

\* POST /api/inbounds
CreateInboundRoute(w) ==
    /\ FreeSlot(w)
    /\ Len(plans) < MaxPlans
    /\ \E q \in Quantities, f \in Fractions, r \in ReceivedQuantities,
          st \in BodyStatus :
          IF InsertInboundPlanSchema(q, f, r)
          THEN /\ plans' = CreateInboundPlan(plans, q, r, st)
               /\ response' = "plan created"
               /\ okResponses' = okResponses + 1
          ELSE /\ response' = "Validation error"
               /\ UNCHANGED <<plans, okResponses>>
    /\ alerts' = <<>>
    /\ UNCHANGED <<dbVars, pc, req, txRows, localVars, criteria, receiving>>

\* seeded fault: an empty receipt passes the route
TotalPositiveAlways(g, d) == TRUE

\* if (receiveData.goodQty + receiveData.defectQty <= 0) return 400
TotalPositive(g, d) == ~(g + d <= 0)

\* parseInt(req.params.id): NullId stands for a parameter that is no number
PlanIds == 0 .. MaxPlans

\* POST /api/inbounds/:id/receive up to the storage call
ReceiveRoute(w) ==
    /\ FreeSlot(w)
    /\ Len(history) + 2 <= MaxHistory + MaxPlans
    /\ \E id \in PlanIds, g \in Quantities, d \in Quantities, f \in Fractions :
          IF id = NullId
          THEN /\ response' = "Invalid inbound plan ID"
               /\ UNCHANGED <<pc, receiving>>
          ELSE IF ~(f = 0 /\ g >= 0 /\ d >= 0)
          THEN /\ response' = "Validation error"
               /\ UNCHANGED <<pc, receiving>>
          ELSE IF ~TotalPositive(g, d)
          THEN /\ response' = "Total quantity must be greater than 0"
               /\ UNCHANGED <<pc, receiving>>
          ELSE /\ receiving' = [id |-> id, goodQty |-> g, defectQty |-> d]
               /\ pc' = [pc EXCEPT ![w] = "rc_receive"]
               /\ response' = "none"
    /\ alerts' = <<>>
    /\ UNCHANGED <<dbVars, req, txRows, localVars, okResponses, criteria, plans>>

\* the increase-only branch of adjustInventory: add to the row, or insert it
PlaceInto(rows, p, l, s, q) ==
    LET row == SelectBalance(rows, p, l, s)
        ids == {r.id : r \in rows} \cup {0}
        next == 1 + CHOOSE m \in ids : \A i \in ids : i <= m
    IN  IF q = 0 THEN rows
        ELSE IF row.id # NullId
        THEN Replace(rows, [row EXCEPT !.quantity = NewQuantity(row, q)])
        ELSE rows \cup {NewRow(next, p, l, s, q)}

\* the history row of an increase-only adjustInventory call, none for 0
ReceiptHistory(p, l, s, q) ==
    IF q = 0 THEN <<>>
    ELSE <<HistoryRow("goods-received", p, q, l, l, NullState, s, NullId)>>

\* the quantity of the plan still to come
Remaining(plan) == plan.plannedQty - plan.receivedQty

\* step 1 of the receive operation
WithinRemaining(plan, total) == total <= Remaining(plan)

\* step 4: received-to-date grows by the receipt, and the plan is completed
\* when it reaches the planned quantity
Received(plan, total) ==
    [plan EXCEPT !.receivedQty = @ + total,
                 !.status = IF plan.receivedQty + total = plan.plannedQty
                            THEN "completed" ELSE @]

\* receiveInboundPlan(id, goodQty, defectQty, shelfId, memo, actor), one unit
ReceiveInboundPlan(w) ==
    /\ pc[w] = "rc_receive"
    /\ LET id == receiving.id
           total == receiving.goodQty + receiving.defectQty
       IN  IF id > Len(plans)
           THEN /\ response' = "Inbound plan not found"
                /\ UNCHANGED <<dbVars, plans, okResponses>>
           ELSE IF ~WithinRemaining(plans[id], total)
           THEN /\ response' = "Receive quantity exceeds remaining quantity"
                /\ UNCHANGED <<dbVars, plans, okResponses>>
           ELSE /\ balances' =
                      PlaceInto(PlaceInto(balances, plans[id].productId, WarehouseShelf,
                                          NORMAL, receiving.goodQty),
                                plans[id].productId, WarehouseShelf,
                                DEFECTIVE, receiving.defectQty)
                /\ history' = history
                      \o ReceiptHistory(plans[id].productId, WarehouseShelf,
                                        NORMAL, receiving.goodQty)
                      \o ReceiptHistory(plans[id].productId, WarehouseShelf,
                                        DEFECTIVE, receiving.defectQty)
                /\ plans' = [plans EXCEPT ![id] = Received(@, total)]
                /\ response' = "Inbound received successfully"
                /\ okResponses' = okResponses + 1
                /\ UNCHANGED instructions
    /\ pc' = [pc EXCEPT ![w] = "idle"]
    /\ receiving' = NoReceive
    /\ alerts' = <<>>
    /\ UNCHANGED <<req, txRows, localVars, criteria>>

\* ------------------------------------------------------- specifications
Step(w, bodies) ==
    \/ AdjustRoute(w, bodies)
    \/ AdjustFromSelect(w)
    \/ AdjustFromUpdate(w)
    \/ AdjustToSelect(w)
    \/ AdjustToWrite(w)
    \/ AdjustHistoryCommit(w)
    \/ AdjustStatementFails(w)
    \/ ShippingRoute(w)
    \/ CreateShippingInstruction(w)
    \/ ShippingHistory(w)
    \/ ShippingStatementFails(w)
    \/ ConfirmRoute(w)
    \/ ConfirmGet(w)
    \/ ConfirmSourceRead(w)
    \/ ConfirmSourceExisting(w)
    \/ ConfirmSourceWrite(w)
    \/ ConfirmDestRead(w)
    \/ ConfirmDestExisting(w)
    \/ ConfirmDestWrite(w)
    \/ ConfirmMark(w)
    \/ ConfirmHistory(w)
    \/ ConfirmStatementFails(w)

\* requests served concurrently, interleaved between their statements
Next ==
    \E w \in Workers : Step(w, ContendingAdjustBodies) \/ AdjustDeadlock(w)

Spec == Init /\ [][Next]_vars

\* requests served one at a time
SeqNext == Step(1, AllAdjustBodies)

SeqSpec == Init /\ [][SeqNext]_vars

\* every route that reaches the ledger, requests served one at a time
RouteNext ==
    \/ Step(1, ContendingAdjustBodies)
    \/ SaleRoute(1)
    \/ ReturnShipRoute(1)
    \/ CustomerReturnRoute(1)

RouteSpec == Init /\ [][RouteNext]_vars

\* the criteria row of the store: any thresholds, active or not
StoreCriteria ==
    {[productId |-> 1, locationId |-> Store, minStock |-> m, targetStock |-> t,
      standardReplenishment |-> InitShipQty, active |-> a] : m \in 0 .. MaxMin, t \in 0 .. MaxTarget, a \in BOOLEAN}

\* criteria rows of n further stores, which hold no stock
OtherCriteria(n) ==
    {[productId |-> 1, locationId |-> Store + k, minStock |-> 1 + (k % MaxMin),
      targetStock |-> MaxTarget, standardReplenishment |-> InitShipQty,
      active |-> TRUE] : k \in 1 .. n}

OtherCounts == {0, AlertLimit - 1 + ExtraPairs}

AlertInit ==
    /\ LedgerInit
    /\ \E c \in StoreCriteria, n \in OtherCounts : criteria = {c} \cup OtherCriteria(n)

\* the advisor read next to shipping create and confirm, which add and
\* complete pending instructions and raise the store's stock; requests served
\* one at a time
AlertNext ==
    \/ LowStockRoute(1)
    \/ AutoReplenishRoute(1)
    \/ ShippingRoute(1)
    \/ CreateShippingInstruction(1)
    \/ ShippingHistory(1)
    \/ ConfirmRoute(1)
    \/ ConfirmGet(1)
    \/ ConfirmSourceRead(1)
    \/ ConfirmSourceExisting(1)
    \/ ConfirmSourceWrite(1)
    \/ ConfirmDestRead(1)
    \/ ConfirmDestExisting(1)
    \/ ConfirmDestWrite(1)
    \/ ConfirmMark(1)
    \/ ConfirmHistory(1)

AlertSpec == AlertInit /\ [][AlertNext]_vars

\* inbound plans created and received, requests served one at a time
InboundNext ==
    \/ CreateInboundRoute(1)
    \/ ReceiveRoute(1)
    \/ ReceiveInboundPlan(1)

InboundSpec == Init /\ [][InboundNext]_vars

\* adjust and confirm requests served concurrently, every statement succeeding
RaceNext ==
    \E w \in Workers :
        \/ AdjustRoute(w, ContendingAdjustBodies)
        \/ AdjustFromSelect(w)
        \/ AdjustFromUpdate(w)
        \/ AdjustToSelect(w)
        \/ AdjustToWrite(w)
        \/ AdjustHistoryCommit(w)
        \/ AdjustDeadlock(w)
        \/ ConfirmRoute(w)
        \/ ConfirmGet(w)
        \/ ConfirmSourceRead(w)
        \/ ConfirmSourceExisting(w)
        \/ ConfirmSourceWrite(w)
        \/ ConfirmDestRead(w)
        \/ ConfirmDestExisting(w)
        \/ ConfirmDestWrite(w)
        \/ ConfirmMark(w)
        \/ ConfirmHistory(w)

RaceSpec == Init /\ [][RaceNext]_vars

\* concurrent adjust requests only
AdjustNext ==
    \E w \in Workers :
        \/ AdjustRoute(w, ContendingAdjustBodies)
        \/ AdjustFromSelect(w)
        \/ AdjustFromUpdate(w)
        \/ AdjustToSelect(w)
        \/ AdjustToWrite(w)
        \/ AdjustHistoryCommit(w)
        \/ AdjustStatementFails(w)
        \/ AdjustDeadlock(w)

AdjustSpec == Init /\ [][AdjustNext]_vars

\* ---------------------------------------------------------- properties
RECURSIVE SumQuantity(_)
SumQuantity(rows) ==
    IF rows = {} THEN 0
    ELSE LET r == CHOOSE x \in rows : TRUE
         IN  r.quantity + SumQuantity(rows \ {r})

\* total stock of a product over all locations and states
ProductTotal(rows, p) == SumQuantity({r \in rows : r.productId = p})

\* slot w takes the step
Acts(w) == pc'[w] # pc[w] \/ req'[w] # req[w]

AdjustOk == "Inventory adjusted successfully"
AdjustInsufficient == "Insufficient inventory in state"
ConfirmOk == "Shipping instruction confirmed"
ConfirmInsufficient == "Insufficient warehouse inventory"

\* C1: every balance row, committed or written by an open transaction, holds
\* a quantity >= 0 in every state reachable by interleaved adjust and confirm
\* requests.
C1_NonNegative ==
    /\ \A r \in balances : r.quantity >= 0
    /\ \A w \in Workers : \A r \in txRows[w] : r.quantity >= 0

\* two requests have both passed the sufficiency check on the same row and
\* together ask for more than the row holds
C1_Witness ==
    /\ pc[1] = "adj_from_update" /\ pc[2] = "adj_from_update"
    /\ fromBalance[1].id = fromBalance[2].id
    /\ req[1].quantity + req[2].quantity > BalanceOf(balances, 1, WarehouseShelf, NORMAL)

\* C2: when two reduction-only adjusts of the warehouse NORMAL balance have
\* both committed (and nothing else has run), the balance is the seeded
\* quantity minus the sum of the two quantities.
C2_BothDecrementsApplied ==
    (/\ Busy = {}
     /\ Len(history) = 2
     /\ \A i \in 1 .. 2 :
            /\ history[i].fromLocationId = WarehouseShelf
            /\ history[i].fromState = NORMAL
            /\ history[i].toState = NullState)
    => BalanceOf(balances, 1, WarehouseShelf, NORMAL)
           = InitStock - history[1].quantity - history[2].quantity

\* C3: an adjust whose fromState row is missing or holds less than the
\* quantity ends at its sufficiency check with the insufficient-inventory
\* error (unless the store rejects the select itself), having written
\* nothing: balance rows and history are those of before the call.
C3_InsufficientAdjustChangesNothing ==
    [][\A w \in Workers :
        LET row == SelectBalance(Visible(w), req[w].productId,
                                 req[w].locationId, req[w].fromState)
        IN  (/\ pc[w] = "adj_from_select"
             /\ Acts(w)
             /\ (row.id = NullId \/ row.quantity < req[w].quantity))
            => /\ pc'[w] = "idle"
               /\ response' \in {AdjustInsufficient, "store error"}
               /\ txRows[w] = {}
               /\ balances' = balances
               /\ history' = history
               /\ okResponses' = okResponses]_vars

\* an adjust has just been refused for want of stock
C3_Witness == response = AdjustInsufficient

\* C4: with requests served one after the other, no step of an adjust that
\* names both fromState and toState (same state included, failed or not)
\* changes the product's total over all locations and states.
C4_Conservation ==
    [][(/\ req[1].op = "adjust"
        /\ req[1].fromState # NullState
        /\ req[1].toState # NullState)
       => ProductTotal(balances', 1) = ProductTotal(balances, 1)]_vars

\* a state-to-state move has just committed
C4_Witness ==
    /\ response = AdjustOk
    /\ Len(history) > 0
    /\ history[Len(history)].fromState # NullState
    /\ history[Len(history)].toState # NullState
    /\ history[Len(history)].fromState # history[Len(history)].toState

\* the instruction row a confirm call works on, as the call found it
ConfirmFound(w) ==
    IF pc[w] = "cf_get" THEN GetShippingInstruction(req[w].id) ELSE instruction[w]

\* C5: with requests served one after the other, a confirm of an instruction
\* that is already 'completed' fails, and none of its steps changes a
\* balance row, the instruction row or the history.
C5_CompletedConfirmRefused ==
    [][(/\ InConfirm(1)
        /\ ConfirmFound(1).status = "completed"
        /\ Acts(1))
       => /\ pc'[1] = "idle"
          /\ response' # ConfirmOk
          /\ balances' = balances
          /\ instructions' = instructions
          /\ history' = history]_vars

\* C6: with requests served one after the other, a confirm that ends in
\* failure leaves the instruction as it found it and the source and
\* destination NORMAL balances at the values it read before writing.
C6_FailedConfirmChangesNothing ==
    [][(/\ InConfirm(1)
        /\ pc'[1] = "idle"
        /\ response' # ConfirmOk
        /\ instruction[1].id # NullId)
       => /\ instructions'[instruction[1].id] = instruction[1]
          /\ (fromBalance[1].id # NullId =>
                 BalanceOf(balances', instruction[1].productId,
                           instruction[1].fromLocationId, NORMAL)
                     = fromBalance[1].quantity)
          /\ (pc[1] \in {"cf_dst_existing", "cf_dst_write", "cf_mark", "cf_history"} =>
                 BalanceOf(balances', instruction[1].productId,
                           instruction[1].toLocationId, NORMAL)
                     = toBalance[1].quantity)]_vars

\* C7: a confirm that finds the source NORMAL row missing or below the
\* instruction quantity ends at that check with the insufficient-inventory
\* error (unless the store rejects the read itself); no step of the call up
\* to and including the check changes a balance row, an instruction row or
\* the history, so the instruction keeps its status.
C7_InsufficientConfirmChangesNothing ==
    [][\A w \in Workers :
        LET row == SelectBalance(balances, instruction[w].productId,
                                 instruction[w].fromLocationId, NORMAL)
        IN  /\ (pc[w] \in {"cf_get", "cf_src_read"} /\ Acts(w))
               => /\ balances' = balances
                  /\ instructions' = instructions
                  /\ history' = history
                  /\ okResponses' = okResponses
            /\ (/\ pc[w] = "cf_src_read"
                /\ Acts(w)
                /\ (row.id = NullId \/ row.quantity < instruction[w].quantity))
               => /\ pc'[w] = "idle"
                  /\ response' \in {ConfirmInsufficient, "store error"}]_vars

\* a confirm has just been refused for want of stock while its instruction
\* is pending
C7_Witness ==
    /\ response = ConfirmInsufficient
    /\ \E i \in 1 .. Len(instructions) :
           /\ instructions[i].status = "pending"
           /\ BalanceOf(balances, instructions[i].productId,
                        instructions[i].fromLocationId, NORMAL)
                  < instructions[i].quantity

\* C8: with requests served one after the other, when a confirm of a pending
\* instruction of quantity q answers success, the source NORMAL balance is
\* the one it read minus q, the destination NORMAL balance is the one it read
\* (zero when there was no row) plus q, the instruction is 'completed' with a
\* completion timestamp, and the call has appended one history row, of kind
\* ship-confirmed with the instruction id as referenceId, as its last step.
C8_ConfirmEffect ==
    [][/\ (InConfirm(1) /\ pc[1] # "cf_history") => history' = history
       /\ (/\ pc[1] = "cf_history"
           /\ response' = ConfirmOk
           /\ instruction[1].status = "pending")
          => /\ BalanceOf(balances', instruction[1].productId,
                          instruction[1].fromLocationId, NORMAL)
                    = fromBalance[1].quantity - instruction[1].quantity
             /\ BalanceOf(balances', instruction[1].productId,
                          instruction[1].toLocationId, NORMAL)
                    = toBalance[1].quantity + instruction[1].quantity
             /\ instructions'[req[1].id].status = "completed"
             /\ instructions'[req[1].id].completedAt # "null"
             /\ Len(history') = Len(history) + 1
             /\ SubSeq(history', 1, Len(history)) = history
             /\ history'[Len(history')].operationType = "ship-confirmed"
             /\ history'[Len(history')].referenceId = req[1].id
             /\ history'[Len(history')].quantity = instruction[1].quantity]_vars

\* a confirm has just answered success, creating the destination row
C8_Witness ==
    /\ response = ConfirmOk
    /\ Len(history) = 1
    /\ instructions[1].status = "completed"
    /\ BalanceOf(balances, 1, Store, NORMAL) = InitShipQty
    /\ BalanceOf(balances, 1, WarehouseShelf, NORMAL) = InitStock - InitShipQty

\* C9: starting from an empty history, the number of history rows equals the
\* number of success responses sent by the adjust, create-shipping and
\* confirm routes.
C9_AuditCount == Len(history) = okResponses

\* calls have succeeded and a later call has failed
C9_Witness ==
    /\ okResponses >= 1
    /\ response \in {ConfirmInsufficient, AdjustInsufficient, "store error",
                     "Failed to create shipping instruction"}

\* C10: every adjust that commits a history row changes a balance row in the
\* same commit.
C10_HistoryOnlyWithMutation ==
    [][(/\ pc[1] = "adj_history"
        /\ response' = AdjustOk)
       => balances' # balances]_vars

\* the ledger rows a concurrent reader can see
IsLedgerEntry(row) == row.operationType # "ship-request-created"

\* C11: in every state a reader can observe, balance mutations and their
\* history rows appear together: a step that changes a committed balance row
\* also commits a history row, and a step that commits the history row of an
\* adjust or a confirm also commits a balance mutation named by that row.
C11_MutationAndHistoryTogether ==
    [][/\ (balances' # balances) => Len(history') = Len(history) + 1
       /\ (/\ Len(history') = Len(history) + 1
           /\ IsLedgerEntry(history'[Len(history')])
           /\ history'[Len(history')].fromState # history'[Len(history')].toState)
          => balances' # balances]_vars

\* the quantity a (location, state) pair holds in the initial state
InitialQuantity(l, s) == BalanceOf({NewRow(1, 1, WarehouseShelf, NORMAL, InitStock),
                                    NewRow(2, 1, WarehouseShelf, RESERVED, InitReserved)},
                                   1, l, s)

\* what the first n history rows add to and take from (location l, state s)
RECURSIVE HistoryNet(_, _, _)
HistoryNet(n, l, s) ==
    IF n = 0 THEN 0
    ELSE LET h == history[n]
             in == IF h.toLocationId = l /\ h.toState = s THEN h.quantity ELSE 0
             out == IF h.fromLocationId = l /\ h.fromState = s THEN h.quantity ELSE 0
         IN  HistoryNet(n - 1, l, s) + in - out

\* C12: in every reachable state, for every (location, state) of the product,
\* the committed balance is the initial quantity plus the quantities of the
\* history rows that name the pair as destination minus those of the rows
\* that name it as source.
C12_BalanceIsHistoryFold ==
    \A l \in Locations, s \in InventoryState :
        BalanceOf(balances, 1, l, s)
            = InitialQuantity(l, s) + HistoryNet(Len(history), l, s)

\* what a committed adjustInventory call adds to the product's total
TotalDelta(r) ==
    (IF r.toState # NullState THEN r.quantity ELSE 0)
    - (IF r.fromState # NullState THEN r.quantity ELSE 0)

\* the steps of slot 1 at which committed balance rows may change
AdjustCommits == pc[1] = "adj_history" /\ pc'[1] = "idle" /\ response' # "store error"
ConfirmTakesOut == pc[1] = "cf_src_write" /\ pc'[1] = "cf_dst_read"
ConfirmPutsIn == pc[1] = "cf_dst_write" /\ pc'[1] = "cf_mark"

C14_ReductionOnlyEffect ==
    [][(/\ InAdjust(1)
        /\ req[1].fromState # NullState
        /\ req[1].toState = NullState)
       => IF AdjustCommits
          THEN /\ response' = SuccessMessage(req[1].op)
               /\ BalanceOf(balances', req[1].productId, req[1].locationId,
                            req[1].fromState)
                      = BalanceOf(balances, req[1].productId, req[1].locationId,
                                  req[1].fromState) - req[1].quantity
               /\ {r \in balances' : ~SameKey(r, req[1].productId,
                                             req[1].locationId, req[1].fromState)}
                      = {r \in balances : ~SameKey(r, req[1].productId,
                                                  req[1].locationId, req[1].fromState)}
               /\ Len(history') = Len(history) + 1
               /\ SubSeq(history', 1, Len(history)) = history
               /\ history'[Len(history')].quantity = req[1].quantity
               /\ history'[Len(history')].fromState = req[1].fromState
               /\ history'[Len(history')].toState = NullState
          ELSE balances' = balances /\ history' = history]_vars

\* a sale of the whole seeded NORMAL stock of the shelf has just committed
C14_Witness ==
    /\ response = SuccessMessage("sale")
    /\ Len(history) = 1
    /\ history[1].operationType = "sale"
    /\ history[1].quantity = InitStock
    /\ BalanceOf(balances, 1, WarehouseShelf, NORMAL) = 0
    /\ BalanceOf(balances, 1, WarehouseShelf, RESERVED) = InitReserved

\* C15: an adjust request that names neither fromState nor toState is
\* answered with a validation error: no such request is accepted by the
\* adjust route, so none reaches adjustInventory, and no step of such a call
\* changes a balance row or appends a history row.
C15_NeitherStateRejected ==
    [][\A w \in Workers :
        /\ (req'[w] # req[w] /\ req'[w].op = "adjust")
           => (req'[w].fromState # NullState \/ req'[w].toState # NullState)
        /\ (/\ req[w].op = "adjust"
            /\ req[w].fromState = NullState
            /\ req[w].toState = NullState
            /\ Acts(w))
           => (balances' = balances /\ history' = history)]_vars

\* the routes that hand a body's quantity to adjustInventory
AdjustOps == {"adjust", "sale", "return_ship", "customer_return"}

OneRowPerTuple(rows) ==
    \A r1, r2 \in rows :
        SameKey(r1, r2.productId, r2.locationId, r2.state) => r1.id = r2.id

\* C17: in every reachable state the committed balance rows, and the rows any
\* open transaction sees, hold at most one row per (product, location,
\* state), also when concurrent calls add to a tuple that has no row yet.
C17_OneRowPerTuple ==
    /\ OneRowPerTuple(balances)
    /\ \A w \in Workers : OneRowPerTuple(Visible(w))

\* an insert for a tuple another call has just created was refused
C17_Witness ==
    /\ response = "duplicate key value"
    /\ \E r \in balances : SameKey(r, 1, Store, NORMAL)

\* C18: no step of adjustInventory, of the create-shipping route, of
\* confirmShippingInstruction or of createHistoryEntry updates or deletes a
\* history row: after every step the history of before is a prefix of the
\* history of after.
C18_HistoryAppendOnly ==
    [][/\ Len(history') >= Len(history)
       /\ SubSeq(history', 1, Len(history)) = history]_vars

\* a second history row has been written after a first one of another kind
C18_Witness ==
    /\ Len(history) = 2
    /\ history[1].operationType = "ship-request-created"
    /\ history[2].operationType = "ship-confirmed"

\* C19: every instruction row the create operation inserts has status
\* 'pending' and no completion timestamp, whatever the request body carries.
C19_CreatedPending ==
    [][Len(instructions') > Len(instructions)
       => /\ instructions'[Len(instructions')].status = "pending"
          /\ instructions'[Len(instructions')].completedAt = "null"]_vars

\* C20: an instruction whose status is 'completed' keeps that status through
\* every step of every operation.
C20_CompletedTerminal ==
    [][\A i \in 1 .. Len(instructions) :
        instructions[i].status = "completed"
        => (/\ Len(instructions') >= i
            /\ instructions'[i].status = "completed")]_vars

\* a completed instruction has been confirmed a second time
C20_Witness ==
    /\ response = ConfirmOk
    /\ Len(history) = 2
    /\ \A n \in 1 .. 2 : /\ history[n].operationType = "ship-confirmed"
                         /\ history[n].referenceId = 1
    /\ instructions[1].status = "completed"

\* C21: no step of the create-shipping route changes a balance row; its
\* insert step adds the instruction and no history row, and its last step,
\* when it answers success, appends exactly one history row, of kind
\* ship-request-created, with null fromLocationId and toLocationId and the
\* new instruction's id as referenceId.
C21_CreateShippingEffect ==
    [][\A w \in Workers :
        (pc[w] \in {"sh_insert", "sh_history"} /\ Acts(w))
        => /\ balances' = balances
           /\ (pc[w] = "sh_insert" /\ pc'[w] = "sh_history")
              => /\ history' = history
                 /\ Len(instructions') = Len(instructions) + 1
                 /\ instruction'[w].id = Len(instructions')
           /\ (pc[w] = "sh_history" /\ response' = "instruction created")
              => /\ instructions' = instructions
                 /\ Len(history') = Len(history) + 1
                 /\ SubSeq(history', 1, Len(history)) = history
                 /\ history'[Len(history')].operationType = "ship-request-created"
                 /\ history'[Len(history')].fromLocationId = NullId
                 /\ history'[Len(history')].toLocationId = NullId
                 /\ history'[Len(history')].referenceId = instruction[w].id]_vars

\* a second instruction has just been created and logged
C21_Witness ==
    /\ response = "instruction created"
    /\ Len(instructions) = 2
    /\ Len(history) = 1
    /\ history[1].operationType = "ship-request-created"
    /\ history[1].referenceId = 2

\* the reference rule of the advisor for a criteria row
RuleHolds(c) ==
    /\ BalanceOf(balances, c.productId, c.locationId, NORMAL) < c.minStock
    /\ ~\E i \in 1 .. Len(instructions) :
           /\ instructions[i].status = "pending"
           /\ instructions[i].productId = c.productId
           /\ instructions[i].toLocationId = c.locationId

Reported(c) ==
    \E i \in 1 .. Len(alerts) :
        alerts[i].productId = c.productId /\ alerts[i].locationId = c.locationId

\* every alert of the list carries the figures of the reference rule
AlertFigures ==
    \A i \in 1 .. Len(alerts) :
        LET current == BalanceOf(balances, alerts[i].productId,
                                 alerts[i].locationId, NORMAL)
        IN  /\ alerts[i].currentStock = current
            /\ alerts[i].shortageAmount = alerts[i].minStock - current
            /\ \E c \in criteria :
                   /\ c.productId = alerts[i].productId
                   /\ c.locationId = alerts[i].locationId
                   /\ c.minStock = alerts[i].minStock
                   /\ c.targetStock = alerts[i].targetStock
            /\ RecommendedQuantity(alerts[i]) >= 0
            /\ RecommendedQuantity(alerts[i]) >= alerts[i].targetStock - current
            /\ RecommendedQuantity(alerts[i])
                   \in {0, alerts[i].targetStock - current}

\* C22 as stated: the list getLowStockAlerts returns reports a configured
\* pair exactly when its NORMAL balance is below minStock and no pending
\* instruction has that product and destination, each alert carrying
\* shortageAmount = minStock - currentStock and a recommended quantity of
\* max(0, targetStock - currentStock).
C22_AlertsFollowRule ==
    response = "alerts"
    => /\ \A c \in criteria : Reported(c) <=> RuleHolds(c)
       /\ AlertFigures

\* criteria rows that meet the rule and whose product and location are active
Qualifying == {c \in criteria : c.active /\ RuleHolds(c)}

ShortageOf(c) == c.minStock - BalanceOf(balances, c.productId, c.locationId, NORMAL)

\* C22 amended: a configured pair is reported only if it meets the rule and
\* its product and location are active; such a pair is reported when at most
\* 50 qualifying pairs have a shortage at least as large as its own, and is
\* not reported when 50 or more qualifying pairs have a larger shortage; each
\* alert carries the figures of the rule.
C22_AlertsFollowRuleWithinLimit ==
    response = "alerts"
    => /\ \A c \in criteria :
           /\ Reported(c) => c \in Qualifying
           /\ (/\ c \in Qualifying
               /\ Cardinality({d \in Qualifying : ShortageOf(d) >= ShortageOf(c)})
                      <= AlertLimit)
              => Reported(c)
           /\ (/\ c \in Qualifying
               /\ Cardinality({d \in Qualifying : ShortageOf(d) > ShortageOf(c)})
                      >= AlertLimit)
              => ~Reported(c)
       /\ AlertFigures

\* the store is reported with stock above its target: nothing to recommend
C22_Witness ==
    /\ response = "alerts"
    /\ \E i \in 1 .. Len(alerts) :
           /\ alerts[i].locationId = Store
           /\ alerts[i].currentStock > alerts[i].targetStock
           /\ alerts[i].shortageAmount = 1
           /\ RecommendedQuantity(alerts[i]) = 0

\* C23: the list getLowStockAlerts returns is in order of non-increasing
\* shortageAmount and has at most 50 entries, no qualifying pair left out has
\* a larger shortage than an entry of the list, and computing the list
\* changes no balance, instruction, criteria or history row.
C23_LargestShortagesFirst ==
    [][response' \in {"alerts", "Failed to fetch low stock alerts"}
       => /\ UNCHANGED <<balances, instructions, history, criteria>>
          /\ response' = "alerts"
             => /\ Len(alerts') <= 50
                /\ \A i \in 1 .. Len(alerts') - 1 :
                       alerts'[i].shortageAmount >= alerts'[i + 1].shortageAmount
                /\ \A c \in Qualifying :
                       \/ \E i \in 1 .. Len(alerts') :
                              /\ alerts'[i].productId = c.productId
                              /\ alerts'[i].locationId = c.locationId
                       \/ \A i \in 1 .. Len(alerts') :
                              alerts'[i].shortageAmount >= ShortageOf(c)]_vars

\* more pairs qualify than the list holds, and the list is full
C23_Witness ==
    /\ response = "alerts"
    /\ Len(alerts) = 50
    /\ Cardinality(Qualifying) > 50
    /\ alerts[1].shortageAmount > alerts[50].shortageAmount
    /\ \E c \in Qualifying : ~Reported(c)

\* the pairs a pending instruction targets
Covered(list) ==
    {<<list[i].productId, list[i].toLocationId>> :
        i \in {j \in 1 .. Len(list) : list[j].status = "pending"}}

\* C24: while a pending instruction targets a (product, location), the list
\* getLowStockAlerts returns has no alert for the pair, and a run of the
\* planner creates no further instruction for it.
C24_CoveredPairLeftAlone ==
    [][/\ response' = "alerts"
          => \A i \in 1 .. Len(alerts') :
                 <<alerts'[i].productId, alerts'[i].locationId>>
                     \notin Covered(instructions')
       /\ response' = "replenished"
          => \A i \in Len(instructions) + 1 .. Len(instructions') :
                 <<instructions'[i].productId, instructions'[i].toLocationId>>
                     \notin Covered(instructions)]_vars

\* the planner has run again over a store that is low and has a pending
\* instruction from the earlier run: nothing was added
C24_Witness ==
    /\ response = "replenished"
    /\ alerts = <<>>
    /\ Len(instructions) = 2
    /\ instructions[1].status = "completed"
    /\ instructions[2].status = "pending"
    /\ instructions[2].toLocationId = Store
    /\ Len(history) = 2
    /\ \E c \in criteria : c.locationId = Store /\ c.active /\ LowStock(c)

\* C25: every inbound plan has 0 <= receivedQty <= plannedQty, and no create
\* or receive step lowers the receivedQty of a plan.
C25_ReceivedWithinPlanned ==
    [][/\ \A i \in 1 .. Len(plans') :
              0 <= plans'[i].receivedQty /\ plans'[i].receivedQty <= plans'[i].plannedQty
       /\ \A i \in 1 .. Len(plans) :
              /\ i <= Len(plans')
              /\ plans'[i].receivedQty >= plans[i].receivedQty]_vars

\* C26: a receive request is accepted only with goodQty >= 0, defectQty >= 0
\* and 1 <= goodQty + defectQty <= plannedQty - receivedQty; any other
\* request is rejected, and a rejected request leaves plans, balances and
\* history as they were.
C26_ReceiveWithinRemaining ==
    [][/\ receiving' # NoReceive
          => /\ receiving'.goodQty >= 0
             /\ receiving'.defectQty >= 0
             /\ receiving'.goodQty + receiving'.defectQty >= 1
       /\ response' = "Inbound received successfully"
          => /\ receiving.id \in 1 .. Len(plans)
             /\ receiving.goodQty + receiving.defectQty
                    <= plans[receiving.id].plannedQty - plans[receiving.id].receivedQty
             /\ plans'[receiving.id].receivedQty
                    = plans[receiving.id].receivedQty
                          + receiving.goodQty + receiving.defectQty
       /\ (/\ receiving # NoReceive
           /\ \/ receiving.id \notin 1 .. Len(plans)
              \/ receiving.goodQty + receiving.defectQty
                     > plans[receiving.id].plannedQty - plans[receiving.id].receivedQty)
          => response' # "Inbound received successfully"
       /\ response' \in {"Invalid inbound plan ID", "Validation error",
                         "Total quantity must be greater than 0",
                         "Inbound plan not found",
                         "Receive quantity exceeds remaining quantity"}
          => UNCHANGED <<plans, balances, history>>]_vars

\* a plan of two was received in part, and a receipt larger than the rest
\* has just been refused
C26_Witness ==
    /\ response = "Receive quantity exceeds remaining quantity"
    /\ \E i \in 1 .. Len(plans) :
           /\ plans[i].plannedQty = 2
           /\ plans[i].receivedQty = 1
           /\ plans[i].status = "pending"
    /\ Len(history) = 1
    /\ history[1].operationType = "goods-received"

\* C27: an adjustInventory transaction the store aborts for a conflict with a
\* concurrent transaction is run again by the engine: the step that aborts it
\* does not end the request with a failure.
C27_ConflictRetried ==
    [][\A w \in Workers :
          (Deadlocked(w) /\ Acts(w) /\ response' = "deadlock detected")
          => pc'[w] # "idle"]_vars

\* C28: when one confirm and one adjust that lowers the source NORMAL
\* balance have both finished with success (and nothing else has written),
\* the source NORMAL balance is the seeded quantity minus the instruction
\* quantity minus the adjust's quantity.
C28_NeitherUpdateLost ==
    (/\ Busy = {}
     /\ Len(history) = 2
     /\ \E i, j \in 1 .. 2 :
            /\ history[i].operationType = "ship-confirmed"
            /\ history[j].operationType # "ship-confirmed"
            /\ history[j].fromLocationId = WarehouseShelf
            /\ history[j].fromState = NORMAL)
    => BalanceOf(balances, 1, WarehouseShelf, NORMAL)
           = InitStock - history[1].quantity - history[2].quantity

\* the NORMAL rows of the instruction's product at its source and destination
ConfirmScope(ins, r) ==
    /\ r.productId = ins.productId
    /\ r.locationId \in {ins.fromLocationId, ins.toLocationId}
    /\ r.state = NORMAL

\* C29: a step of confirmShippingInstruction reads and writes no balance row
\* but the NORMAL rows of the instruction's product at its source and
\* destination: every other row, the RESERVED ones included, is after the
\* step what it was before.
C29_ConfirmTouchesNormalOnly ==
    [][\A w \in Workers :
          (InConfirm(w) /\ pc'[w] # pc[w])
          => /\ \A r \in balances :
                    ~ConfirmScope(instruction'[w], r) /\ ~ConfirmScope(instruction[w], r)
                    => r \in balances'
             /\ \A r \in balances' \ balances :
                    ConfirmScope(instruction[w], r)
             /\ \A r \in {fromBalance'[w], toBalance'[w], existing'[w]} :
                    r.id # NullId => ConfirmScope(instruction[w], r)]_vars

\* stock was reserved for the seeded instruction, the instruction was then
\* confirmed, and the reserved stock is still reserved
C29_Witness ==
    /\ response = "Shipping instruction confirmed"
    /\ Len(history) = 2
    /\ history[1].fromState = NORMAL /\ history[1].toState = RESERVED
    /\ history[2].operationType = "ship-confirmed"
    /\ BalanceOf(balances, 1, WarehouseShelf, RESERVED) = InitReserved + 1
    /\ BalanceOf(balances, 1, WarehouseShelf, NORMAL) = InitStock - 1 - InitShipQty
    /\ BalanceOf(balances, 1, Store, NORMAL) = InitShipQty

\* the ship-request-created rows that refer to instruction id
CreatedRows(id) ==
    {i \in 1 .. Len(history) :
        /\ history[i].operationType = "ship-request-created"
        /\ history[i].referenceId = id}

\* C30: every instruction created through POST /api/shipping whose request
\* has ended has exactly one ship-request-created history row with its id,
\* also when a statement of the route failed.
C30_CreatedWithAuditRow ==
    \A id \in 2 .. Len(instructions) :
        (\A w \in Workers : ~(pc[w] = "sh_history" /\ instruction[w].id = id))
        => Cardinality(CreatedRows(id)) = 1

====
